---- MODULE Spec2Model ----
(***************************************************************************)
(* Model of conceptnet_sqlite/base.py: the KnowledgeBase orchestrator, its *)
(* two derived caches (triplet index, vocabulary) and bulk ingestion.      *)
(*                                                                         *)
(* The cache root is taken as resolved to a directory; the collaborators   *)
(* Vocab, TripletStore and Edge.from_dict live outside base.py and are     *)
(* modelled by the interface the design document gives them.               *)
(***************************************************************************)
EXTENDS Integers, Sequences, FiniteSets, TLC

(* ---------------------------------------------------------------------- *)
(* Bounds                                                                  *)
(* ---------------------------------------------------------------------- *)
MaxNodes == 4          \* longest node stream of the vocabulary build
MaxBatch == 3          \* largest batch size tried for the vocabulary build
MaxInterrupts == 2     \* interruptions of get_vocab per behaviour
MaxSessions == 2       \* the count of unclosed sessions saturates here
MaxInitEdges == 3      \* edges of a store that exists before the first open
MaxRecords == 201      \* longest record stream of a loader

CommitInterval == 100  \* from_loader commits when i % 100 == 0

Procs == {"p1", "p2"}  \* processes that may run get_vocab on one store

VARIABLES
    \* ---- vocabulary build (get_vocab) ----
    node_tbl,       \* the Node table: the stream session.query(Node) yields
    batch_size,     \* batch_size of get_vocab
    final_vocab,    \* file at vocab_db_path
    temp_vocab,     \* file at vocab_db_temp_path
    gv_pc,          \* per process: position inside get_vocab
    gv_i,           \* per process: loop index i of enumerate(pbar)
    gv_nodes,       \* per process: the local list nodes
    gv_extends,     \* per process: batches handed to vocab.extend in this call
    gv_removed,     \* per process: the stale temp file this call removed
    gv_sessions,    \* per process: sessions acquired and not closed
    interrupts,     \* number of interruptions so far
    gv_entry,       \* per process: final and temp file when the call began
    moves,          \* moves of a temp file to the final path so far
    \* ---- primary store and triplet index (persistent) ----
    store,          \* file at self.path: "absent", "blank" (no tables), "schema"
    edge_tbl,       \* the Edge table: committed edges, in store order
    idx_rows,       \* triples held by the TripletStore at index_path
    idx_frozen,     \* the TripletStore's frozen flag
    \* ---- the process running KnowledgeBase operations ----
    pc,             \* position inside the running operation
    kb,             \* a KnowledgeBase instance has been constructed
    caller,         \* who runs __init__: "init" or "from_loader"
    err,            \* the error the running operation raised, "none" if none
    sessions,       \* sessions acquired and not closed
    idx_cursor,     \* edges the running index build has read
    idx_queries,    \* edge queries issued by the running/last index call
    idx_added,      \* triples passed to index.add by the running/last call
    idx_entry,      \* index rows when the running/last index call began
    idx_last,       \* outcome of the running/last index call
    idx_prev,       \* outcome of the index call before it
    idx_failed,     \* some index build has raised so far
    \* ---- from_loader ----
    ld_n,           \* length of the stream loader.iterrows() yields
    ld_i,           \* loop index i of enumerate(loader.iterrows())
    ld_consumed,    \* records taken from the loader
    pending,        \* edges added to the session and not committed
    ld_base,        \* the Edge table when ingestion began
    ld_commits,     \* commit calls: pending count and outcome of each
    ld_rollbacks,   \* rollback calls
    \* ---- arguments and results of the running/last call ----
    init_create,    \* the create argument of __init__
    init_absent,    \* no store file existed when __init__ began
    kb_path,        \* self.path of the instance under construction, or <<>>
    ld_config,      \* loader.config: identifier and version
    ld_result,      \* what from_loader returned: "unset", "None", "handle"
    \* ---- path resolution of two stores side by side ----
    pa_in,          \* per slot: identifier, version, cache root, cwd file
    pa_out          \* per slot: the resolved paths, once computed

vocab_vars == <<node_tbl, batch_size, final_vocab, temp_vocab, gv_pc, gv_i,
                gv_nodes, gv_extends, gv_removed, gv_sessions, interrupts,
                gv_entry, moves>>

store_vars == <<store, edge_tbl, idx_rows, idx_frozen>>

idx_vars == <<idx_cursor, idx_queries, idx_added, idx_entry, idx_last,
              idx_prev, idx_failed>>

ld_vars == <<ld_n, ld_i, ld_consumed, pending, ld_base, ld_commits,
             ld_rollbacks>>

call_vars == <<init_create, init_absent, kb_path, ld_config, ld_result>>

kb_vars == <<store_vars, pc, kb, caller, err, sessions, idx_vars, ld_vars,
             call_vars>>

path_vars == <<pa_in, pa_out>>

vars == <<vocab_vars, kb_vars, path_vars>>

(* ---------------------------------------------------------------------- *)
(* Helpers                                                                 *)
(* ---------------------------------------------------------------------- *)
Range(s) == {s[k] : k \in 1..Len(s)}

CeilDiv(n, b) == (n + b - 1) \div b

RECURSIVE Flatten(_)
Flatten(ss) == IF ss = <<>> THEN <<>> ELSE Head(ss) \o Flatten(Tail(ss))

\* a path with no file, and a file holding the rows written to it
NoFile == [exists |-> FALSE, rows |-> <<>>]
File(rows) == [exists |-> TRUE, rows |-> rows]

(* ---------------------------------------------------------------------- *)
(* Paths and names, as sequences of characters                             *)
(* ---------------------------------------------------------------------- *)
Letters == {"a", "b", "d", "e", "n", "o", "r", "t", "v", "w", "x"}
Digits == {"0", "1", "2", "3"}

\* str.isidentifier(): a letter or underscore, then letters, digits, "_"
IsIdentifier(str) ==
    /\ str # <<>>
    /\ str[1] \in Letters \cup {"_"}
    /\ \A k \in 1..Len(str) : str[k] \in Letters \cup Digits \cup {"_"}

\* str.rfind(c), counted from 1; 0 when c does not occur
LastIndex(str, c) ==
    IF \E k \in 1..Len(str) : str[k] = c
    THEN CHOOSE k \in 1..Len(str) :
             str[k] = c /\ \A j \in (k + 1)..Len(str) : str[j] # c
    ELSE 0

\* a / b and os.path.join(a, b) for a relative b
Join(a, b) == IF a = <<>> THEN b ELSE a \o <<"/">> \o b

\* PurePath.name and PurePath.parent
BaseName(path) == SubSeq(path, LastIndex(path, "/") + 1, Len(path))

DirName(path) == SubSeq(path, 1, LastIndex(path, "/") - 1)

\* PurePath.suffix: from the last dot of the name, unless the dot is the
\* first or the last character of the name
SuffixAt(name) ==
    LET k == LastIndex(name, ".")
    IN IF 1 < k /\ k < Len(name) THEN k ELSE Len(name) + 1

\* PurePath.stem
Stem(path) == SubSeq(BaseName(path), 1, SuffixAt(BaseName(path)) - 1)

\* PurePath.with_name(name) and PurePath.with_suffix(suffix)
WithName(path, name) == Join(DirName(path), name)

WithSuffix(path, suffix) == Join(DirName(path), Stem(path) \o suffix)

DotDb == <<".", "d", "b">>

\* get_kb_path for a string name: the path it returns. cwd_file says whether
\* <name>.db exists relative to the working directory
KbPath(name, cache_dir, cwd_file) ==
    LET kb_cache_dir == Join(cache_dir, <<"k", "b">>)
        input_path == WithName(name, BaseName(name) \o DotDb)
    IN IF ~cwd_file
       THEN Join(kb_cache_dir, name \o DotDb)
       ELSE Join(kb_cache_dir,
                 Join(<<"d", "e", "f", "a", "u", "l", "t">>, Stem(input_path))
                     \o DotDb)

\* variant: the index path drops everything after the first dot of the name
IndexPathFirstDot(path) ==
    LET name == BaseName(path)
        k == IF \E j \in 1..Len(name) : name[j] = "."
             THEN CHOOSE j \in 1..Len(name) :
                      name[j] = "." /\ \A h \in 1..(j - 1) : name[h] # "."
             ELSE Len(name) + 1
    IN Join(DirName(path), SubSeq(name, 1, k - 1))
           \o <<"-", "i", "n", "d", "e", "x">>

\* index_path = str(self.path.with_suffix("")) + "-index"
IndexPath(path) == WithSuffix(path, <<>>) \o <<"-", "i", "n", "d", "e", "x">>

\* vocab_db_path = self.path.with_name(self.path.stem + "-vocab.db")
VocabPath(path) ==
    WithName(path, Stem(path) \o <<"-", "v", "o", "c", "a", "b">> \o DotDb)

\* vocab_db_temp_path = self.path.with_name(self.path.stem + "-vocab.db.tmp")
VocabTempPath(path) ==
    WithName(path, Stem(path) \o <<"-", "v", "o", "c", "a", "b">> \o DotDb
                       \o <<".", "t", "m", "p">>)

\* version = loader.config.version or "0.0.1"; <<>> stands for None and ""
LoaderVersion(version) ==
    IF version = <<>> THEN <<"0", ".", "0", ".", "1">> ELSE version

\* database_name = os.path.join(identifier, f"{identifier}-v{version}")
DatabaseName(config) ==
    Join(config.identifier,
         config.identifier \o <<"-", "v">> \o LoaderVersion(config.version))

Wordnet == <<"w", "o", "r", "d", "n", "e", "t">>
Bad123 == <<"1", "2", "3", "b", "a", "d">>
V120 == <<"1", ".", "2", ".", "0">>
CacheRoot == <<"r">>

NoConfig == [identifier |-> <<>>, version |-> <<>>]

\* the loaders of the ingestion specification
LoaderConfigs ==
    {[identifier |-> Wordnet, version |-> V120],
     [identifier |-> Bad123, version |-> <<>>]}

\* stream lengths tried for a loader; the stream of a rejected loader is
\* never read, so two lengths stand for all of them
StreamLengths(config) ==
    IF IsIdentifier(config.identifier) THEN 0..MaxRecords ELSE {1, MaxRecords}

\* the one store the store/index/ingestion specifications are about
StorePath == KbPath(DatabaseName([identifier |-> Wordnet, version |-> V120]),
                    CacheRoot, FALSE)

(* ---------------------------------------------------------------------- *)
(* Vocab (collaborator): constructing it on a path creates the file if it  *)
(* is absent; extend appends the batch to the file at the handle's path.   *)
(* ---------------------------------------------------------------------- *)
VocabOpen(f) == IF f.exists THEN f ELSE File(<<>>)

VocabExtend(f, batch) == File(VocabOpen(f).rows \o batch)

(* ---------------------------------------------------------------------- *)
(* session(): yields Session(self.engine); nothing runs after the yield    *)
(* ---------------------------------------------------------------------- *)
SessionEnter(n) == IF n < MaxSessions THEN n + 1 ELSE n

SessionExit(n) == n

(* ---------------------------------------------------------------------- *)
(* get_vocab                                                               *)
(* ---------------------------------------------------------------------- *)
\* the flush test of the build loop, on the enumerate index i (0-based)
FlushAt(idx, b) == idx % b = 0

\* with self.session(): n_total = session.query(Node).count()
get_vocab_count(p) ==
    /\ UNCHANGED <<kb_vars, path_vars, moves>>
    /\ gv_entry' = [gv_entry EXCEPT ![p] =
                       [final |-> final_vocab, temp |-> temp_vocab]]
    /\ gv_pc[p] = "idle"
    /\ gv_pc' = [gv_pc EXCEPT ![p] = "check_final"]
    /\ gv_sessions' = [gv_sessions EXCEPT ![p] = SessionExit(SessionEnter(@))]
    /\ gv_i' = [gv_i EXCEPT ![p] = 0]
    /\ gv_nodes' = [gv_nodes EXCEPT ![p] = <<>>]
    /\ gv_extends' = [gv_extends EXCEPT ![p] = <<>>]
    /\ gv_removed' = [gv_removed EXCEPT ![p] = NoFile]
    /\ UNCHANGED <<node_tbl, batch_size, final_vocab, temp_vocab, interrupts>>

\* variant: the final path is not consulted
get_vocab_check_final_rebuild(p) ==
    /\ UNCHANGED <<kb_vars, path_vars, gv_entry, moves>>
    /\ gv_pc[p] = "check_final"
    /\ gv_pc' = [gv_pc EXCEPT ![p] = "check_temp"]
    /\ UNCHANGED <<node_tbl, batch_size, final_vocab, temp_vocab, gv_i,
                   gv_nodes, gv_extends, gv_removed, gv_sessions, interrupts>>

\* if os.path.exists(vocab_db_path): return Vocab(config)
get_vocab_check_final(p) ==
    /\ UNCHANGED <<kb_vars, path_vars, gv_entry, moves>>
    /\ gv_pc[p] = "check_final"
    /\ gv_pc' = [gv_pc EXCEPT ![p] =
                    IF final_vocab.exists THEN "hit" ELSE "check_temp"]
    /\ UNCHANGED <<node_tbl, batch_size, final_vocab, temp_vocab, gv_i,
                   gv_nodes, gv_extends, gv_removed, gv_sessions, interrupts>>

\* if os.path.exists(vocab_db_temp_path):
get_vocab_check_temp(p) ==
    /\ UNCHANGED <<kb_vars, path_vars, gv_entry, moves>>
    /\ gv_pc[p] = "check_temp"
    /\ gv_pc' = [gv_pc EXCEPT ![p] =
                    IF temp_vocab.exists THEN "remove_temp" ELSE "open_temp"]
    /\ UNCHANGED <<node_tbl, batch_size, final_vocab, temp_vocab, gv_i,
                   gv_nodes, gv_extends, gv_removed, gv_sessions, interrupts>>

\* variant: the stale temp file is found but left in place
get_vocab_remove_temp_kept(p) ==
    /\ UNCHANGED <<kb_vars, path_vars, gv_entry, moves>>
    /\ gv_pc[p] = "remove_temp"
    /\ gv_removed' = [gv_removed EXCEPT ![p] = temp_vocab]
    /\ gv_pc' = [gv_pc EXCEPT ![p] = "open_temp"]
    /\ UNCHANGED <<node_tbl, batch_size, final_vocab, temp_vocab, gv_i,
                   gv_nodes, gv_extends, gv_sessions, interrupts>>

\* os.remove(vocab_db_temp_path); raises when the file is gone by now
get_vocab_remove_temp(p) ==
    /\ UNCHANGED <<kb_vars, path_vars, gv_entry, moves>>
    /\ gv_pc[p] = "remove_temp"
    /\ IF temp_vocab.exists
          THEN /\ temp_vocab' = NoFile
               /\ gv_removed' = [gv_removed EXCEPT ![p] = temp_vocab]
               /\ gv_pc' = [gv_pc EXCEPT ![p] = "open_temp"]
          ELSE /\ gv_pc' = [gv_pc EXCEPT ![p] = "error"]
               /\ UNCHANGED <<temp_vocab, gv_removed>>
    /\ UNCHANGED <<node_tbl, batch_size, final_vocab, gv_i, gv_nodes,
                   gv_extends, gv_sessions, interrupts>>

\* vocab = Vocab(tmp_config); with self.session() as session: nodes = []
get_vocab_open_temp(p) ==
    /\ UNCHANGED <<kb_vars, path_vars, gv_entry, moves>>
    /\ gv_pc[p] = "open_temp"
    /\ temp_vocab' = VocabOpen(temp_vocab)
    /\ gv_sessions' = [gv_sessions EXCEPT ![p] = SessionEnter(@)]
    /\ gv_i' = [gv_i EXCEPT ![p] = 0]
    /\ gv_nodes' = [gv_nodes EXCEPT ![p] = <<>>]
    /\ gv_pc' = [gv_pc EXCEPT ![p] = "loop"]
    /\ UNCHANGED <<node_tbl, batch_size, final_vocab, gv_extends, gv_removed,
                   interrupts>>

\* one iteration of: for i, node in enumerate(pbar)
get_vocab_loop(p) ==
    /\ UNCHANGED <<kb_vars, path_vars, gv_entry, moves>>
    /\ gv_pc[p] = "loop"
    /\ gv_i[p] < Len(node_tbl)
    /\ LET appended == Append(gv_nodes[p], node_tbl[gv_i[p] + 1])
       IN IF FlushAt(gv_i[p], batch_size)
             THEN /\ temp_vocab' = VocabExtend(temp_vocab, appended)
                  /\ gv_extends' = [gv_extends EXCEPT ![p] = Append(@, appended)]
                  /\ gv_nodes' = [gv_nodes EXCEPT ![p] = <<>>]
             ELSE /\ gv_nodes' = [gv_nodes EXCEPT ![p] = appended]
                  /\ UNCHANGED <<temp_vocab, gv_extends>>
    /\ gv_i' = [gv_i EXCEPT ![p] = @ + 1]
    /\ UNCHANGED <<node_tbl, batch_size, final_vocab, gv_pc, gv_removed,
                   gv_sessions, interrupts>>

\* variant: no flush after the loop
get_vocab_tail_noflush(p) ==
    /\ UNCHANGED <<kb_vars, path_vars, gv_entry, moves>>
    /\ gv_pc[p] = "loop"
    /\ gv_i[p] = Len(node_tbl)
    /\ gv_sessions' = [gv_sessions EXCEPT ![p] = SessionExit(@)]
    /\ gv_pc' = [gv_pc EXCEPT ![p] = "move"]
    /\ UNCHANGED <<node_tbl, batch_size, final_vocab, temp_vocab, gv_i,
                   gv_nodes, gv_extends, gv_removed, interrupts>>

\* if nodes: vocab.extend(nodes); the with block ends; del vocab
get_vocab_tail(p) ==
    /\ UNCHANGED <<kb_vars, path_vars, gv_entry, moves>>
    /\ gv_pc[p] = "loop"
    /\ gv_i[p] = Len(node_tbl)
    /\ IF gv_nodes[p] # <<>>
          THEN /\ temp_vocab' = VocabExtend(temp_vocab, gv_nodes[p])
               /\ gv_extends' = [gv_extends EXCEPT ![p] = Append(@, gv_nodes[p])]
          ELSE UNCHANGED <<temp_vocab, gv_extends>>
    /\ gv_sessions' = [gv_sessions EXCEPT ![p] = SessionExit(@)]
    /\ gv_pc' = [gv_pc EXCEPT ![p] = "move"]
    /\ UNCHANGED <<node_tbl, batch_size, final_vocab, gv_i, gv_nodes,
                   gv_removed, interrupts>>

\* shutil.move(vocab_db_temp_path, vocab_db_path); raises without a source
get_vocab_move(p) ==
    /\ UNCHANGED <<kb_vars, path_vars, gv_entry>>
    /\ gv_pc[p] = "move"
    /\ IF temp_vocab.exists
          THEN /\ final_vocab' = temp_vocab
               /\ temp_vocab' = NoFile
               /\ moves' = moves + 1
               /\ gv_pc' = [gv_pc EXCEPT ![p] = "built"]
          ELSE /\ gv_pc' = [gv_pc EXCEPT ![p] = "error"]
               /\ UNCHANGED <<final_vocab, temp_vocab, moves>>
    /\ UNCHANGED <<node_tbl, batch_size, gv_i, gv_nodes, gv_extends,
                   gv_removed, gv_sessions, interrupts>>

\* return vocab (either return statement) or the error reaches the caller
get_vocab_return(p) ==
    /\ UNCHANGED <<kb_vars, path_vars, gv_entry, moves>>
    /\ gv_pc[p] \in {"hit", "built", "error"}
    /\ gv_pc' = [gv_pc EXCEPT ![p] = "idle"]
    /\ UNCHANGED <<node_tbl, batch_size, final_vocab, temp_vocab, gv_i,
                   gv_nodes, gv_extends, gv_removed, gv_sessions, interrupts>>

\* the process is interrupted inside the build and is started afresh
get_vocab_interrupt(p) ==
    /\ UNCHANGED <<kb_vars, path_vars, gv_entry, moves>>
    /\ gv_pc[p] \in {"check_final", "check_temp", "remove_temp", "open_temp",
                     "loop", "move"}
    /\ interrupts < MaxInterrupts
    /\ interrupts' = interrupts + 1
    /\ gv_pc' = [gv_pc EXCEPT ![p] = "idle"]
    /\ gv_sessions' = [gv_sessions EXCEPT ![p] = 0]
    /\ UNCHANGED <<node_tbl, batch_size, final_vocab, temp_vocab, gv_i,
                   gv_nodes, gv_extends, gv_removed>>

get_vocab(p) ==
    \/ get_vocab_count(p)
    \/ get_vocab_check_final(p)
    \/ get_vocab_check_temp(p)
    \/ get_vocab_remove_temp(p)
    \/ get_vocab_open_temp(p)
    \/ get_vocab_loop(p)
    \/ get_vocab_tail(p)
    \/ get_vocab_move(p)
    \/ get_vocab_return(p)

(* ---------------------------------------------------------------------- *)
(* Specifications of the vocabulary build                                  *)
(* ---------------------------------------------------------------------- *)
\* no path is being resolved
PathIdle ==
    /\ pa_in = <<>>
    /\ pa_out = <<>>

\* no KnowledgeBase operation other than get_vocab is running
KbIdle ==
    /\ store = "schema"
    /\ edge_tbl = <<>>
    /\ idx_rows = {}
    /\ idx_frozen = TRUE
    /\ pc = "idle"
    /\ kb = TRUE
    /\ caller = "init"
    /\ err = "none"
    /\ sessions = 0
    /\ idx_cursor = 0
    /\ idx_queries = 0
    /\ idx_added = <<>>
    /\ idx_entry = {}
    /\ idx_last = "built"
    /\ idx_prev = "none"
    /\ idx_failed = FALSE
    /\ ld_n = 0
    /\ ld_i = 0
    /\ ld_consumed = 0
    /\ pending = <<>>
    /\ ld_base = <<>>
    /\ ld_commits = <<>>
    /\ ld_rollbacks = 0
    /\ init_create = FALSE
    /\ init_absent = FALSE
    /\ kb_path = StorePath
    /\ ld_config = NoConfig
    /\ ld_result = "unset"

InitVocab ==
    /\ \E n \in 0..MaxNodes : node_tbl = [k \in 1..n |-> k]
    /\ batch_size \in 1..MaxBatch
    /\ final_vocab = NoFile
    /\ temp_vocab = NoFile
    /\ gv_pc = [p \in Procs |-> "idle"]
    /\ gv_i = [p \in Procs |-> 0]
    /\ gv_nodes = [p \in Procs |-> <<>>]
    /\ gv_extends = [p \in Procs |-> <<>>]
    /\ gv_removed = [p \in Procs |-> NoFile]
    /\ gv_sessions = [p \in Procs |-> 0]
    /\ interrupts = 0
    /\ gv_entry = [p \in Procs |-> [final |-> NoFile, temp |-> NoFile]]
    /\ moves = 0
    /\ KbIdle
    /\ PathIdle

\* one process, which may be interrupted and started again
NextVocab == get_vocab("p1") \/ get_vocab_interrupt("p1")

SpecVocab == InitVocab /\ [][NextVocab]_vars

\* between two calls the store gains a node (committed by an ingestion)
node_insert ==
    /\ gv_pc["p1"] = "idle"
    /\ Len(node_tbl) < MaxNodes
    /\ node_tbl' = Append(node_tbl, Len(node_tbl) + 1)
    /\ UNCHANGED <<kb_vars, path_vars, batch_size, final_vocab, temp_vocab,
                   gv_pc, gv_i, gv_nodes, gv_extends, gv_removed, gv_sessions,
                   interrupts, gv_entry, moves>>

\* one process on a store whose node set grows between calls
NextVocabGrow == NextVocab \/ node_insert

SpecVocabGrow == InitVocab /\ [][NextVocabGrow]_vars

\* two processes on the same store, no locking between them
NextRace == \E p \in Procs : get_vocab(p)

SpecRace == InitVocab /\ [][NextRace]_vars

(* ---------------------------------------------------------------------- *)
(* Primary store                                                           *)
(* ---------------------------------------------------------------------- *)
\* get_kb_path for a name under the cache root: Base.metadata.create_all
\* runs only when the file is absent and create is set
GetKbPath(st, create) == IF st = "absent" /\ create THEN "schema" ELSE st

\* PRAGMA journal_mode=WAL on the engine: connecting creates a missing file
PragmaWal(st) == IF st = "absent" THEN "blank" ELSE st

\* a row of session.query(Edge.start_id, Edge.rel_id, Edge.end_id)
TripleOf(e) == <<e, e % 2, e + 1>>

TriplesOf(tbl) == [k \in 1..Len(tbl) |-> TripleOf(tbl[k])]

\* TripletStore.add of one streamed triple: the index is persistent and
\* keyed by triple, so a triple is stored as it is taken from the stream
TripletAdd(rows, t) == rows \cup {t}

(* ---------------------------------------------------------------------- *)
(* KnowledgeBase.__init__                                                  *)
(* ---------------------------------------------------------------------- *)
\* self.path = get_kb_path(...); self.engine = create_engine(...)
kb_init(create) ==
    /\ pc = "idle"
    /\ store' = GetKbPath(store, create)
    /\ caller' = "init"
    /\ err' = "none"
    /\ pc' = "pragma"
    /\ init_create' = create
    /\ init_absent' = (store = "absent")
    /\ kb_path' = StorePath
    /\ UNCHANGED <<vocab_vars, path_vars, edge_tbl, idx_rows, idx_frozen, kb,
                   sessions, idx_vars, ld_vars, ld_config, ld_result>>

\* with self.session() as session: session.execute(PRAGMA journal_mode=WAL)
kb_pragma ==
    /\ pc = "pragma"
    /\ sessions' = SessionExit(SessionEnter(sessions))
    /\ store' = PragmaWal(store)
    /\ pc' = "idx_check"
    /\ UNCHANGED <<vocab_vars, path_vars, call_vars,
                   edge_tbl, idx_rows, idx_frozen, kb, caller, err,
                   idx_vars, ld_vars>>

(* ---------------------------------------------------------------------- *)
(* _get_or_create_index                                                    *)
(* ---------------------------------------------------------------------- *)
\* variant: the frozen flag is not consulted
idx_enter_rebuild ==
    /\ pc = "idx_check"
    /\ idx_prev' = idx_last
    /\ idx_entry' = idx_rows
    /\ idx_queries' = 0
    /\ idx_added' = <<>>
    /\ idx_cursor' = 0
    /\ idx_last' = "running"
    /\ pc' = "idx_query"
    /\ UNCHANGED <<vocab_vars, path_vars, call_vars,
                   store_vars, kb, caller, err, sessions,
                   idx_failed, ld_vars>>

\* index = TripletStore(index_path); if index.frozen: return index
idx_enter ==
    /\ pc = "idx_check"
    /\ idx_prev' = idx_last
    /\ idx_entry' = idx_rows
    /\ idx_queries' = 0
    /\ idx_added' = <<>>
    /\ idx_cursor' = 0
    /\ IF idx_frozen
          THEN /\ idx_last' = "hit"
               /\ pc' = "idx_done"
          ELSE /\ idx_last' = "running"
               /\ pc' = "idx_query"
    /\ UNCHANGED <<vocab_vars, path_vars, call_vars,
                   store_vars, kb, caller, err, sessions,
                   idx_failed, ld_vars>>

\* with self.session(): n_total = session.query(Edge).count(); query = ...
\* a store file without tables makes the count raise
idx_query ==
    /\ pc = "idx_query"
    /\ sessions' = SessionEnter(sessions)
    /\ idx_queries' = idx_queries + 1
    /\ IF store = "schema"
          THEN /\ pc' = "idx_scan"
               /\ UNCHANGED <<err, idx_last, idx_failed>>
          ELSE /\ pc' = "error"
               /\ err' = "scan"
               /\ idx_last' = "failed"
               /\ idx_failed' = TRUE
    /\ UNCHANGED <<vocab_vars, path_vars, call_vars,
                   store_vars, kb, caller, idx_cursor, idx_added,
                   idx_entry, idx_prev, ld_vars>>

\* index.add(pbar): the next row of the scan goes into the index
idx_add ==
    /\ pc = "idx_scan"
    /\ idx_cursor < Len(edge_tbl)
    /\ idx_rows' = TripletAdd(idx_rows, TripleOf(edge_tbl[idx_cursor + 1]))
    /\ idx_added' = Append(idx_added, TripleOf(edge_tbl[idx_cursor + 1]))
    /\ idx_cursor' = idx_cursor + 1
    /\ UNCHANGED <<vocab_vars, path_vars, call_vars,
                   store, edge_tbl, idx_frozen, pc, kb, caller,
                   err, sessions, idx_queries, idx_entry, idx_last, idx_prev,
                   idx_failed, ld_vars>>

\* variant: a failed build marks the index frozen all the same
idx_raise_frozen ==
    /\ pc = "idx_scan"
    /\ pc' = "error"
    /\ err' = "scan"
    /\ idx_last' = "failed"
    /\ idx_failed' = TRUE
    /\ idx_frozen' = TRUE
    /\ UNCHANGED <<vocab_vars, path_vars, call_vars,
                   store, edge_tbl, idx_rows, kb, caller,
                   sessions, idx_cursor, idx_queries, idx_added, idx_entry,
                   idx_prev, ld_vars>>

\* the scan or index.add raises: the error leaves _get_or_create_index
idx_raise ==
    /\ pc = "idx_scan"
    /\ pc' = "error"
    /\ err' = "scan"
    /\ idx_last' = "failed"
    /\ idx_failed' = TRUE
    /\ UNCHANGED <<vocab_vars, path_vars, call_vars,
                   store_vars, kb, caller, sessions, idx_cursor,
                   idx_queries, idx_added, idx_entry, idx_prev, ld_vars>>

\* the stream is exhausted, the with block ends; index.frozen = True
idx_freeze ==
    /\ pc = "idx_scan"
    /\ idx_cursor = Len(edge_tbl)
    /\ sessions' = SessionExit(sessions)
    /\ idx_frozen' = TRUE
    /\ idx_last' = "built"
    /\ pc' = "idx_done"
    /\ UNCHANGED <<vocab_vars, path_vars, call_vars,
                   store, edge_tbl, idx_rows, kb, caller, err,
                   idx_cursor, idx_queries, idx_added, idx_entry, idx_prev,
                   idx_failed, ld_vars>>

\* self.index = ...; self.node_index = NodeIndex(...): __init__ returns
kb_init_done ==
    /\ pc = "idx_done"
    /\ kb' = TRUE
    /\ pc' = IF caller = "from_loader" THEN "ld_pragma" ELSE "idle"
    /\ UNCHANGED <<vocab_vars, path_vars, call_vars,
                   store_vars, caller, err, sessions, idx_vars,
                   ld_vars>>

\* an error leaves the running operation and reaches its caller
raise_to_caller ==
    /\ pc = "error"
    /\ pc' = "idle"
    /\ UNCHANGED <<vocab_vars, path_vars, call_vars,
                   store_vars, kb, caller, err, sessions,
                   idx_vars, ld_vars>>

(* ---------------------------------------------------------------------- *)
(* num_edges, iternodes                                                    *)
(* ---------------------------------------------------------------------- *)
\* with self.session() as session: return session.query(Edge).count()
num_edges ==
    /\ pc = "idle"
    /\ kb
    /\ sessions' = SessionExit(SessionEnter(sessions))
    /\ IF store = "schema"
          THEN /\ err' = "none"
               /\ pc' = "idle"
          ELSE /\ err' = "query"
               /\ pc' = "error"
    /\ UNCHANGED <<vocab_vars, path_vars, call_vars,
                   store_vars, kb, caller, idx_vars, ld_vars>>

\* with self.session() as session: for node in query.all(): yield node
iternodes ==
    /\ pc = "idle"
    /\ kb
    /\ sessions' = SessionExit(SessionEnter(sessions))
    /\ IF store = "schema"
          THEN /\ err' = "none"
               /\ pc' = "idle"
          ELSE /\ err' = "query"
               /\ pc' = "error"
    /\ UNCHANGED <<vocab_vars, path_vars, call_vars,
                   store_vars, kb, caller, idx_vars, ld_vars>>

(* ---------------------------------------------------------------------- *)
(* cleanup                                                                 *)
(* ---------------------------------------------------------------------- *)
\* if not os.path.exists(self.path): return
\* os.remove(self.path)
cleanup ==
    /\ pc = "idle"
    /\ kb
    /\ IF store = "absent"
          THEN UNCHANGED <<store, edge_tbl>>
          ELSE /\ store' = "absent"
               /\ edge_tbl' = <<>>
    /\ pc' = "cleaned"
    /\ UNCHANGED <<vocab_vars, path_vars, call_vars, idx_rows, idx_frozen, kb,
                   caller, err, sessions, idx_vars, ld_vars>>

\* cleanup returns to its caller
cleanup_return ==
    /\ pc = "cleaned"
    /\ pc' = "idle"
    /\ UNCHANGED <<vocab_vars, path_vars, call_vars, store_vars, kb, caller,
                   err, sessions, idx_vars, ld_vars>>

(* ---------------------------------------------------------------------- *)
(* from_loader                                                             *)
(* ---------------------------------------------------------------------- *)
\* variant: the commit test fires every 200 records
CommitAtLate(idx) == idx % (2 * CommitInterval) = 0

\* the commit test of the ingestion loop, on the enumerate index i
CommitAt(idx) == idx % CommitInterval = 0

\* session.commit() that succeeds: the pending edges reach the Edge table
Commit(tbl, pend) == tbl \o pend

\* variant: rollback leaves the pending edges in the session
RollbackKept(pend) == pend

\* session.rollback(): the pending edges are dropped
Rollback(pend) == <<>>

\* from_loader ends after the final commit with no return statement
FromLoaderReturn == "None"

\* variant: the store is created before the identifier is validated
from_loader_begin_late(config, n) ==
    /\ pc = "idle"
    /\ Len(edge_tbl) <= MaxInitEdges
    /\ caller' = "from_loader"
    /\ ld_config' = config
    /\ ld_result' = "unset"
    /\ ld_n' = n
    /\ ld_i' = 0
    /\ ld_consumed' = 0
    /\ pending' = <<>>
    /\ ld_base' = edge_tbl
    /\ ld_commits' = <<>>
    /\ ld_rollbacks' = 0
    /\ init_absent' = (store = "absent")
    /\ IF IsIdentifier(config.identifier)
          THEN /\ store' = GetKbPath(store, TRUE)
               /\ init_create' = TRUE
               /\ kb_path' = KbPath(DatabaseName(config), CacheRoot, FALSE)
               /\ err' = "none"
               /\ pc' = "pragma"
          ELSE /\ err' = "ValueError"
               /\ pc' = "error"
               /\ kb_path' = <<>>
               /\ store' = GetKbPath(store, TRUE)
               /\ init_create' = TRUE
    /\ UNCHANGED <<vocab_vars, path_vars, edge_tbl, idx_rows, idx_frozen, kb,
                   sessions, idx_vars>>

\* identifier = loader.config.identifier; version = ... or "0.0.1"
\* if not identifier.isidentifier(): raise ValueError(...)
\* self = cls(database_name, create=True), for a stream of n records
from_loader_begin(config, n) ==
    /\ pc = "idle"
    /\ Len(edge_tbl) <= MaxInitEdges
    /\ caller' = "from_loader"
    /\ ld_config' = config
    /\ ld_result' = "unset"
    /\ ld_n' = n
    /\ ld_i' = 0
    /\ ld_consumed' = 0
    /\ pending' = <<>>
    /\ ld_base' = edge_tbl
    /\ ld_commits' = <<>>
    /\ ld_rollbacks' = 0
    /\ init_absent' = (store = "absent")
    /\ IF IsIdentifier(config.identifier)
          THEN /\ store' = GetKbPath(store, TRUE)
               /\ init_create' = TRUE
               /\ kb_path' = KbPath(DatabaseName(config), CacheRoot, FALSE)
               /\ err' = "none"
               /\ pc' = "pragma"
          ELSE /\ err' = "ValueError"
               /\ pc' = "error"
               /\ kb_path' = <<>>
               /\ UNCHANGED <<store, init_create>>
    /\ UNCHANGED <<vocab_vars, path_vars, edge_tbl, idx_rows, idx_frozen, kb,
                   sessions, idx_vars>>

\* with self.session() as session: session.execute(PRAGMA journal_mode=WAL)
ld_pragma ==
    /\ pc = "ld_pragma"
    /\ sessions' = SessionEnter(sessions)
    /\ ld_base' = edge_tbl
    /\ pc' = "ld_loop"
    /\ UNCHANGED <<vocab_vars, path_vars, call_vars,
                   store_vars, kb, caller, err, idx_vars, ld_n,
                   ld_i, ld_consumed, pending, ld_commits, ld_rollbacks>>

\* the next record is taken and Edge.from_dict(val, session, commit=False)
\* adds its edge to the session; without tables the conversion raises
ld_convert ==
    /\ pc = "ld_loop"
    /\ ld_i < ld_n
    /\ ld_consumed' = ld_consumed + 1
    /\ IF store = "schema"
          THEN /\ pending' = Append(pending, ld_i + 1)
               /\ UNCHANGED err
               /\ IF CommitAt(ld_i)
                     THEN /\ pc' = "ld_commit"
                          /\ UNCHANGED ld_i
                     ELSE /\ pc' = "ld_loop"
                          /\ ld_i' = ld_i + 1
          ELSE /\ err' = "convert"
               /\ pc' = "error"
               /\ UNCHANGED <<pending, ld_i>>
    /\ UNCHANGED <<vocab_vars, path_vars, call_vars,
                   store_vars, kb, caller, sessions, idx_vars,
                   ld_n, ld_base, ld_commits, ld_rollbacks>>

\* if i % 100 == 0: try: session.commit()
\*                  except Exception as e: session.rollback(); raise e
ld_commit ==
    /\ pc = "ld_commit"
    /\ \E ok \in BOOLEAN :
        /\ ld_commits' = Append(ld_commits, [n |-> Len(pending), ok |-> ok])
        /\ IF ok
              THEN /\ edge_tbl' = Commit(edge_tbl, pending)
                   /\ pending' = <<>>
                   /\ ld_i' = ld_i + 1
                   /\ pc' = "ld_loop"
                   /\ UNCHANGED <<err, ld_rollbacks>>
              ELSE /\ pending' = Rollback(pending)
                   /\ ld_rollbacks' = ld_rollbacks + 1
                   /\ err' = "commit"
                   /\ pc' = "error"
                   /\ UNCHANGED <<edge_tbl, ld_i>>
    /\ UNCHANGED <<vocab_vars, path_vars, call_vars,
                   store, idx_rows, idx_frozen, kb, caller,
                   sessions, idx_vars, ld_n, ld_consumed, ld_base>>

\* after the loop: try: session.commit()
\*                 except Exception as e: session.rollback(); raise e
\* then the with block and the function end without a return statement
ld_final_commit ==
    /\ pc = "ld_loop"
    /\ ld_i = ld_n
    /\ \E ok \in BOOLEAN :
        /\ ld_commits' = Append(ld_commits, [n |-> Len(pending), ok |-> ok])
        /\ IF ok
              THEN /\ edge_tbl' = Commit(edge_tbl, pending)
                   /\ pending' = <<>>
                   /\ pc' = "ld_done"
                   /\ ld_result' = FromLoaderReturn
                   /\ UNCHANGED <<err, ld_rollbacks>>
              ELSE /\ pending' = Rollback(pending)
                   /\ ld_rollbacks' = ld_rollbacks + 1
                   /\ err' = "commit"
                   /\ pc' = "error"
                   /\ UNCHANGED <<edge_tbl, ld_result>>
    /\ sessions' = SessionExit(sessions)
    /\ UNCHANGED <<vocab_vars, path_vars, store, idx_rows, idx_frozen, kb,
                   caller, idx_vars, ld_n, ld_i, ld_consumed, ld_base,
                   init_create, init_absent, kb_path, ld_config>>

\* from_loader returns to its caller
ld_return ==
    /\ pc = "ld_done"
    /\ pc' = "idle"
    /\ UNCHANGED <<vocab_vars, path_vars, call_vars,
                   store_vars, kb, caller, err, sessions,
                   idx_vars, ld_vars>>

(* ---------------------------------------------------------------------- *)
(* Specifications of the store, the index and ingestion                    *)
(* ---------------------------------------------------------------------- *)
VocabIdle ==
    /\ node_tbl = <<>>
    /\ batch_size = 1
    /\ final_vocab = NoFile
    /\ temp_vocab = NoFile
    /\ gv_pc = [p \in Procs |-> "idle"]
    /\ gv_i = [p \in Procs |-> 0]
    /\ gv_nodes = [p \in Procs |-> <<>>]
    /\ gv_extends = [p \in Procs |-> <<>>]
    /\ gv_removed = [p \in Procs |-> NoFile]
    /\ gv_sessions = [p \in Procs |-> 0]
    /\ interrupts = 0
    /\ gv_entry = [p \in Procs |-> [final |-> NoFile, temp |-> NoFile]]
    /\ moves = 0

\* no store yet, or a store put in place with some edges and no index
InitStore ==
    /\ \E m \in 0..MaxInitEdges :
          /\ edge_tbl = [k \in 1..m |-> 0 - k]
          /\ store \in (IF m = 0 THEN {"absent", "schema"} ELSE {"schema"})
    /\ idx_rows = {}
    /\ idx_frozen = FALSE
    /\ pc = "idle"
    /\ kb = FALSE
    /\ caller = "init"
    /\ err = "none"
    /\ sessions = 0
    /\ idx_cursor = 0
    /\ idx_queries = 0
    /\ idx_added = <<>>
    /\ idx_entry = {}
    /\ idx_last = "none"
    /\ idx_prev = "none"
    /\ idx_failed = FALSE
    /\ ld_n = 0
    /\ ld_i = 0
    /\ ld_consumed = 0
    /\ pending = <<>>
    /\ ld_base = <<>>
    /\ ld_commits = <<>>
    /\ ld_rollbacks = 0
    /\ init_create = FALSE
    /\ init_absent = FALSE
    /\ kb_path = <<>>
    /\ ld_config = NoConfig
    /\ ld_result = "unset"

InitKB == InitStore /\ VocabIdle /\ PathIdle

\* __init__ with its index materialization
Construct ==
    \/ kb_pragma
    \/ idx_enter
    \/ idx_query
    \/ idx_add
    \/ idx_raise
    \/ idx_freeze
    \/ kb_init_done
    \/ raise_to_caller

\* opening a store and reading from it
NextKB ==
    \/ \E create \in BOOLEAN : kb_init(create)
    \/ Construct
    \/ num_edges
    \/ iternodes

SpecKB == InitKB /\ [][NextKB]_vars

\* opening, reading and removing a store
NextCleanup ==
    \/ NextKB
    \/ cleanup
    \/ cleanup_return

SpecCleanup == InitKB /\ [][NextCleanup]_vars

\* bulk ingestion
NextLoader ==
    \/ \E config \in LoaderConfigs :
           \E n \in StreamLengths(config) : from_loader_begin(config, n)
    \/ Construct
    \/ ld_pragma
    \/ ld_convert
    \/ ld_commit
    \/ ld_final_commit
    \/ ld_return

SpecLoader == InitKB /\ [][NextLoader]_vars

(* ---------------------------------------------------------------------- *)
(* Specification of path resolution: two loaders are named and resolved,   *)
(* and the cache paths of their stores derived                             *)
(* ---------------------------------------------------------------------- *)
Slots == {1, 2}

\* loader.config.identifier, loader.config.version (<<>>: none given)
PathIdentifiers == {<<"a">>, <<"b">>, Wordnet}

PathVersions ==
    {<<>>, <<"0", ".", "0", ".", "1">>, V120, <<"1", ".", "b">>,
     <<"1", ".", "d">>}

\* cache roots a handle can be configured with
PathRoots == {CacheRoot, <<"r", "/", "x">>}

PathInputs ==
    [identifier : PathIdentifiers, version : PathVersions,
     cache_dir : PathRoots, cwd_file : BOOLEAN]

NoPaths ==
    [stage |-> "none", name |-> <<>>, store |-> <<>>, index |-> <<>>,
     vocab |-> <<>>, temp |-> <<>>]

\* whether <name>.db exists relative to the working directory depends on
\* the name alone
InitPaths ==
    /\ KbIdle
    /\ VocabIdle
    /\ pa_in \in [Slots -> PathInputs]
    /\ \A s, t \in Slots :
          DatabaseName(pa_in[s]) = DatabaseName(pa_in[t]) =>
              pa_in[s].cwd_file = pa_in[t].cwd_file
    /\ pa_out = [s \in Slots |-> NoPaths]

\* variant: the store is named after the identifier alone
from_loader_name_short(s) ==
    /\ pa_out[s].stage = "none"
    /\ IsIdentifier(pa_in[s].identifier)
    /\ pa_out' = [pa_out EXCEPT ![s] =
           [@ EXCEPT !.stage = "resolved",
                     !.name = Join(pa_in[s].identifier, pa_in[s].identifier),
                     !.store = KbPath(Join(pa_in[s].identifier,
                                           pa_in[s].identifier),
                                      pa_in[s].cache_dir,
                                      pa_in[s].cwd_file)]]
    /\ UNCHANGED <<vocab_vars, kb_vars, pa_in>>

\* from_loader up to self.path: database_name, then get_kb_path
from_loader_name(s) ==
    /\ pa_out[s].stage = "none"
    /\ IsIdentifier(pa_in[s].identifier)
    /\ pa_out' = [pa_out EXCEPT ![s] =
           [@ EXCEPT !.stage = "resolved",
                     !.name = DatabaseName(pa_in[s]),
                     !.store = KbPath(DatabaseName(pa_in[s]),
                                      pa_in[s].cache_dir,
                                      pa_in[s].cwd_file)]]
    /\ UNCHANGED <<vocab_vars, kb_vars, pa_in>>

\* index_path, vocab_db_path and vocab_db_temp_path of the resolved store
derive_cache_paths(s) ==
    /\ pa_out[s].stage = "resolved"
    /\ pa_out' = [pa_out EXCEPT ![s] =
           [@ EXCEPT !.stage = "derived",
                     !.index = IndexPath(pa_out[s].store),
                     !.vocab = VocabPath(pa_out[s].store),
                     !.temp = VocabTempPath(pa_out[s].store)]]
    /\ UNCHANGED <<vocab_vars, kb_vars, pa_in>>

NextPaths ==
    \/ \E s \in Slots : from_loader_name(s)
    \/ \E s \in Slots : derive_cache_paths(s)

SpecPaths == InitPaths /\ [][NextPaths]_vars

(* ---------------------------------------------------------------------- *)
(* Properties of the vocabulary build                                      *)
(* ---------------------------------------------------------------------- *)
BuildPcs == {"check_temp", "remove_temp", "open_temp", "loop", "move"}

\* C1: a finished build of a stream of N nodes with batch size B has made
\* exactly ceil(N/B) extend calls.
C1_ExtendCount ==
    \A p \in Procs :
        gv_pc[p] = "built" =>
            Len(gv_extends[p]) = CeilDiv(Len(node_tbl), batch_size)

\* C4: with one process, the final path holds a file only after a build
\* that streamed every node and moved it: while a build is under way (so
\* also if it is interrupted there) the final path is empty, a new build
\* starts writing on an absent temp file, the temp file holds only what the
\* running build extended, and the final file holds exactly the node stream.
C4_AtomicBuild ==
    /\ gv_pc["p1"] \in BuildPcs => ~final_vocab.exists
    /\ gv_pc["p1"] = "open_temp" => ~temp_vocab.exists
    /\ gv_pc["p1"] \in {"loop", "move"} =>
            /\ temp_vocab.exists
            /\ temp_vocab.rows = Flatten(gv_extends["p1"])
    /\ gv_pc["p1"] = "built" => ~temp_vocab.exists
    /\ final_vocab.exists => final_vocab.rows = node_tbl

\* C4 witness: after an interruption that left rows in the temp file, a
\* later get_vocab removed that file and finished its build.
C4_Witness ==
    /\ gv_pc["p1"] = "built"
    /\ interrupts > 0
    /\ gv_removed["p1"].exists
    /\ gv_removed["p1"].rows # <<>>
    /\ Len(node_tbl) >= 2
    /\ final_vocab.rows = node_tbl

\* C12: a call that finds the final file returns it: from its start to its
\* return it makes no extend call, removes and creates no temp file, and
\* leaves the final file as it was, whatever nodes the store holds by then;
\* so there is at most one move of a built file over any number of calls.
C12_ExistingVocabReused ==
    /\ gv_pc["p1"] = "hit" => gv_entry["p1"].final.exists
    /\ gv_entry["p1"].final.exists =>
            /\ gv_pc["p1"] \in {"check_final", "hit", "idle"}
            /\ gv_extends["p1"] = <<>>
            /\ ~gv_removed["p1"].exists
            /\ temp_vocab = gv_entry["p1"].temp
            /\ final_vocab = gv_entry["p1"].final
    /\ moves <= 1

\* C12 witness: a call has returned a final file built before the store
\* gained a node.
C12_Witness ==
    /\ gv_pc["p1"] = "hit"
    /\ moves = 1
    /\ final_vocab.rows # <<>>
    /\ final_vocab.rows # node_tbl

\* C13: every batch handed to extend holds between 1 and B nodes, the
\* batches extended so far followed by the local list are the nodes read so
\* far, and after the loop the batches concatenated are the node stream.
C13_BatchesCoverStream ==
    /\ \A k \in 1..Len(gv_extends["p1"]) :
            /\ Len(gv_extends["p1"][k]) >= 1
            /\ Len(gv_extends["p1"][k]) <= batch_size
    /\ gv_pc["p1"] = "loop" =>
            Flatten(gv_extends["p1"]) \o gv_nodes["p1"]
                = SubSeq(node_tbl, 1, gv_i["p1"])
    /\ gv_pc["p1"] \in {"move", "built"} =>
            Flatten(gv_extends["p1"]) = node_tbl

\* C13 witness: a finished build whose batches were one node, a full batch
\* of at least two, and a shorter last one.
C13_Witness ==
    /\ gv_pc["p1"] = "built"
    /\ batch_size >= 2
    /\ Len(gv_extends["p1"]) = 3
    /\ Len(gv_extends["p1"][2]) = batch_size
    /\ Len(gv_extends["p1"][3]) < batch_size

\* C9: under every interleaving of two processes, a file at the final path
\* is a complete vocabulary: it holds every node of the store and nothing
\* else.
C9_RaceComplete ==
    final_vocab.exists => Range(final_vocab.rows) = Range(node_tbl)

(* ---------------------------------------------------------------------- *)
(* Properties of ingestion                                                 *)
(* ---------------------------------------------------------------------- *)
\* records covered by the successful commits of a commit log
RECURSIVE CommittedCount(_)
CommittedCount(log) ==
    IF log = <<>> THEN 0
    ELSE (IF Head(log).ok THEN Head(log).n ELSE 0) + CommittedCount(Tail(log))

CommitFailed == ld_commits # <<>> /\ ~ld_commits[Len(ld_commits)].ok

\* C2: if the k-th commit call fails, with k*100 <= N, exactly (k-1)*100
\* records of the stream are committed in the store and the error is raised.
C2_CommitGranularity ==
    (CommitFailed /\ Len(ld_commits) * CommitInterval <= ld_n) =>
        /\ err = "commit"
        /\ Len(edge_tbl) - Len(ld_base) = (Len(ld_commits) - 1) * CommitInterval

\* C7: no commit is issued with zero pending records, and an ingestion of N
\* records that ends without error has issued ceil(N/100) commits.
C7_CommitCount ==
    /\ \A k \in 1..Len(ld_commits) : ld_commits[k].n > 0
    /\ pc = "ld_done" => Len(ld_commits) = CeilDiv(ld_n, CommitInterval)

\* C8: once a commit of from_loader has raised, the session has been rolled
\* back once and holds nothing pending, the commit's error is the one raised
\* and ingestion has stopped, no record was taken from the loader after the
\* failing batch, and the store holds, after what it held before, exactly
\* the records of the commits that succeeded, in stream order.
C8_CommitFailure ==
    CommitFailed =>
        LET k == Len(ld_commits)
            done == CommittedCount(ld_commits)
        IN /\ \A j \in 1..(k - 1) : ld_commits[j].ok
           /\ pc \in {"error", "idle"}
           /\ err = "commit"
           /\ ld_rollbacks = 1
           /\ pending = <<>>
           /\ ld_consumed = done + ld_commits[k].n
           /\ edge_tbl = ld_base \o [j \in 1..done |-> j]

\* C8 witness: the third commit call, inside the loop, has raised after two
\* commits that succeeded.
C8_Witness ==
    /\ CommitFailed
    /\ pc = "error"
    /\ Len(ld_commits) = 3
    /\ ld_i < ld_n
    /\ Len(edge_tbl) = Len(ld_base) + CommitInterval + 1

(* ---------------------------------------------------------------------- *)
(* Properties of the triplet index                                         *)
(* ---------------------------------------------------------------------- *)
\* C3: whenever the index is frozen its content is the set of triples of
\* the store's edges.
C3_FrozenMirrorsStore ==
    idx_frozen => idx_rows = Range(TriplesOf(edge_tbl))

\* C5: the flag is false while a build is scanning and stays false after a
\* build that raised; a build that set the flag has passed every edge of the
\* store to add, in store order, from one query issued by that build.
C5_FrozenAfterFullScan ==
    /\ pc \in {"idx_query", "idx_scan"} => ~idx_frozen
    /\ idx_last = "failed" => ~idx_frozen
    /\ idx_last = "built" =>
           /\ idx_frozen
           /\ idx_queries = 1
           /\ idx_added = TriplesOf(edge_tbl)

\* C5 witness: a build that raised partway through left rows behind and the
\* next open has built the index with a full scan.
C5_Witness ==
    /\ idx_prev = "failed"
    /\ idx_last = "built"
    /\ idx_entry # {}
    /\ Cardinality(idx_entry) < Len(edge_tbl)
    /\ Len(idx_added) = Len(edge_tbl)

\* C18: a failed index build leaves the index as if never built (no triple
\* of the failed attempt is held), and the build that retries after it ends
\* with exactly the triples of the store's edges.
C18_FailedBuildLeavesNothing ==
    /\ idx_last = "failed" => idx_rows = {}
    /\ (idx_prev = "failed" /\ idx_last = "built") =>
           idx_rows = Range(TriplesOf(edge_tbl))

\* C6: an index call that follows one that returned the index returns it
\* from the frozen flag: no edge query, no add, content and flag unchanged.
C6_SecondCallIsHit ==
    idx_prev \in {"built", "hit"} =>
        /\ idx_last = "hit"
        /\ idx_queries = 0
        /\ idx_added = <<>>
        /\ idx_rows = idx_entry
        /\ idx_frozen

\* C6 witness: a call that built the index of a store with edges was
\* followed by a second call, which has returned.
C6_Witness ==
    /\ idx_prev = "built"
    /\ idx_last = "hit"
    /\ pc = "idle"
    /\ Cardinality(idx_rows) >= 2

\* C10: no session is open once the operation that acquired it has ended.
C10_SessionsReleased ==
    pc = "idle" => sessions = 0

(* ---------------------------------------------------------------------- *)
(* Properties of opening and removing a store                              *)
(* ---------------------------------------------------------------------- *)
\* C11: opening a name that has no store file, without create, ends in an
\* error and leaves no store file behind.
C11_NoStoreWithoutCreate ==
    (caller = "init" /\ init_absent /\ ~init_create) =>
        /\ store = "absent"
        /\ pc = "idle" => err # "none"

\* C15: once cleanup has run, no frozen triplet index and no final
\* vocabulary file of the removed store remain.
C15_CleanupRemovesCaches ==
    pc = "cleaned" =>
        /\ store = "absent"
        /\ ~idx_frozen
        /\ idx_rows = {}
        /\ ~final_vocab.exists

(* ---------------------------------------------------------------------- *)
(* Properties of from_loader's arguments and result                        *)
(* ---------------------------------------------------------------------- *)
\* C14: a from_loader call whose identifier is not a bare-word identifier
\* goes straight to a raised ValueError: the step leaves the store file,
\* the index, the sessions and the instance as they were, binds no path to
\* an instance and takes no record; and such a call never gets further.
C14_RejectStep ==
    (/\ pc = "idle"
     /\ pc' # "idle"
     /\ caller' = "from_loader"
     /\ ~IsIdentifier(ld_config'.identifier))
    => /\ pc' = "error"
       /\ err' = "ValueError"
       /\ kb_path' = <<>>
       /\ ld_consumed' = 0
       /\ UNCHANGED <<store_vars, kb, sessions, idx_vars, vocab_vars>>

C14_InvalidIdentifierRejected ==
    /\ [][C14_RejectStep]_vars
    /\ [](caller = "from_loader" /\ ~IsIdentifier(ld_config.identifier)
             => pc \in {"error", "idle"} /\ err = "ValueError")

\* C14 witness: the identifier 123bad has been rejected on a path where no
\* store file exists.
C14_Witness ==
    /\ pc = "error"
    /\ err = "ValueError"
    /\ ld_config.identifier = Bad123
    /\ store = "absent"
    /\ ld_n > 0

\* C19: a from_loader call that ends without error returns the handle of
\* the store named after the loader's identifier and version.
C19_ReturnsHandle ==
    pc = "ld_done" =>
        /\ ld_result = "handle"
        /\ kb_path = KbPath(DatabaseName(ld_config), CacheRoot, FALSE)

\* C20: at most 100 records are converted and not yet committed, and a
\* from_loader call that ends without error has nothing pending and has
\* put all N records into the store, after what it held, in stream order.
C20_PendingBounded ==
    /\ Len(pending) <= CommitInterval
    /\ pc = "ld_done" =>
            /\ pending = <<>>
            /\ ld_consumed = ld_n
            /\ edge_tbl = ld_base \o [j \in 1..ld_n |-> j]

\* C20 witness: an ingestion of more than 200 records has ended without
\* error.
C20_Witness ==
    /\ pc = "ld_done"
    /\ ld_n > 2 * CommitInterval
    /\ Len(ld_commits) = 4

(* ---------------------------------------------------------------------- *)
(* Properties of names and paths                                           *)
(* ---------------------------------------------------------------------- *)
\* the version a loader's store is named with
EffectiveVersion(config) ==
    IF config.version = <<>> THEN <<"0", ".", "0", ".", "1">>
    ELSE config.version

ExpectedName(config) ==
    config.identifier \o <<"/">> \o config.identifier \o <<"-", "v">>
        \o EffectiveVersion(config)

NamesAsStated ==
    \A s \in Slots :
        pa_out[s].stage # "none" =>
            /\ pa_out[s].name = ExpectedName(pa_in[s])
            /\ (pa_in[s].identifier = Wordnet /\ pa_in[s].version = V120) =>
                   pa_out[s].name =
                       <<"w", "o", "r", "d", "n", "e", "t", "/",
                         "w", "o", "r", "d", "n", "e", "t", "-", "v",
                         "1", ".", "2", ".", "0">>

DerivedPaths(s) == {pa_out[s].index, pa_out[s].vocab, pa_out[s].temp}

\* C17: the index, vocabulary and temp paths of a store at P are P's stem
\* plus -index, -vocab.db and -vocab.db.tmp in P's directory, under every
\* cache root, and two stores at different P share none of them.
C17_CachesFollowStore ==
    /\ \A s \in Slots :
          pa_out[s].stage = "derived" =>
              LET dir == DirName(pa_out[s].store)
                  stem == Stem(pa_out[s].store)
              IN /\ pa_out[s].index =
                        dir \o <<"/">> \o stem
                            \o <<"-", "i", "n", "d", "e", "x">>
                 /\ pa_out[s].vocab =
                        dir \o <<"/">> \o stem
                            \o <<"-", "v", "o", "c", "a", "b", ".", "d", "b">>
                 /\ pa_out[s].temp =
                        dir \o <<"/">> \o stem
                            \o <<"-", "v", "o", "c", "a", "b", ".", "d", "b",
                                 ".", "t", "m", "p">>
                 /\ pa_out[s].store = dir \o <<"/">> \o stem \o DotDb
    /\ \A s, t \in Slots :
          (/\ pa_out[s].stage = "derived"
           /\ pa_out[t].stage = "derived"
           /\ pa_out[s].store # pa_out[t].store)
          => DerivedPaths(s) \cap DerivedPaths(t) = {}

\* C17 witness: two stores in one directory whose names differ only after a
\* dot have had their cache paths derived.
C17_Witness ==
    /\ pa_out[1].stage = "derived"
    /\ pa_out[2].stage = "derived"
    /\ DirName(pa_out[1].store) = DirName(pa_out[2].store)
    /\ pa_in[1].version = <<"1", ".", "b">>
    /\ pa_in[2].version = <<"1", ".", "d">>
    /\ pa_in[1].identifier = pa_in[2].identifier

====
